---- MODULE Spec2Model ----
(***************************************************************************)
(* A model of the Query composition model and of the Experiment lifecycle  *)
(* of PyBEL Web (src/pybel_web/models.py, src/pybel_web/celery_worker.py,    *)
(* src/bel_commons/views/experiment_service.py), of the upload of BEL      *)
(* documents (src/bel_commons/views/uploading.py,                          *)
(* src/pybel_web/views/bms_service.py, async_parser) and of the votes and  *)
(* comments on edges.                                                      *)
(*                                                                         *)
(* A Query is modelled twice, as the code has it twice: the mapped columns *)
(* (id, assembly, seeding and pipeline text, parent_id) and the in-memory  *)
(* pybel query object that Query._get_query builds once and keeps in the   *)
(* attribute _query of the Python object.                                  *)
(***************************************************************************)
EXTENDS Integers, Sequences, FiniteSets, TLC

\* ------------------------------------------------------------------ bounds
MaxQueries == 3          \* Query objects constructed in one behaviour
MaxExperiments == 1      \* Experiment rows created in one behaviour
MaxReports == 2          \* Report rows of uploads created in one behaviour
MaxHours == 4            \* hours the clock advances in one behaviour
MaxEdges == 2            \* Edge rows created in one behaviour
MaxVotes == 3            \* EdgeVote rows created in one behaviour
MaxComments == 2         \* EdgeComment rows created in one behaviour
MaxCompared == 2         \* Experiments in one comparison
MaxRows == 3             \* rows of the table of an Omic
MaxNetworkId == 5        \* ids of the networks of an overlap

\* ------------------------------------------------------------- the corpus
\* The backing network set: two networks over three nodes.  It is not
\* changed by any operation of the model.
NetworkIds == {1, 2}
Nodes == {1, 2, 3}

NetworkEdges(n) == IF n = 1 THEN {<<1, 2>>} ELSE {<<2, 3>>}

EdgeNodes(es) == {e[1] : e \in es} \cup {e[2] : e \in es}

\* Network.as_bel: the graph of one stored network
as_bel(n) == [nodes |-> EdgeNodes(NetworkEdges(n)), edges |-> NetworkEdges(n)]

\* pybel.struct.union over the networks of an assembly
union(ids) ==
    [nodes |-> UNION {as_bel(n).nodes : n \in ids},
     edges |-> UNION {as_bel(n).edges : n \in ids}]

\* ---------------------------------------------------- seeding and pipeline
\* One seeding operation: "neighbors of these nodes"
Seed(nodes) == [type |-> "neighbors", data |-> nodes]

\* One pipeline step: a function name and its positional arguments
Step(name, args) == [function |-> name, args |-> args]

FunctionNames == {"remove_node"}
ArgLists == {<<1>>, <<3>>}
NodeLists == {<<1>>, <<3>>}

\* The textual form of a node reference and its inverse
NodeStr(n) == CASE n = 1 -> "1" [] n = 2 -> "2" [] OTHER -> "3"
StrNode(s) == CASE s = "1" -> 1 [] s = "2" -> 2 [] OTHER -> 3

RECURSIVE NodesStr(_)
NodesStr(ns) ==
    IF ns = <<>> THEN <<>> ELSE <<NodeStr(Head(ns))>> \o NodesStr(Tail(ns))

\* Seeding.dumps / Pipeline.dumps: the stored text is a token list
\* "[" entry* "]", an entry being its name, its arguments and ";".
RECURSIVE SeedingBody(_)
SeedingBody(s) ==
    IF s = <<>> THEN <<>>
    ELSE <<Head(s).type>> \o NodesStr(Head(s).data) \o <<";">> \o SeedingBody(Tail(s))

Seeding_dumps(s) == <<"[">> \o SeedingBody(s) \o <<"]">>

RECURSIVE PipelineBody(_)
PipelineBody(p) ==
    IF p = <<>> THEN <<>>
    ELSE <<Head(p).function>> \o NodesStr(Head(p).args) \o <<";">> \o PipelineBody(Tail(p))

Pipeline_dumps(p) == <<"[">> \o PipelineBody(p) \o <<"]">>

\* The parser shared by Seeding.loads and Pipeline.loads: it returns the
\* entries as <<name, arguments>> pairs.  cur is the entry being read.
RECURSIVE ParseEntries(_, _, _)
ParseEntries(toks, cur, acc) ==
    IF toks = <<>> THEN acc
    ELSE LET t == Head(toks) IN
         CASE t = "[" -> ParseEntries(Tail(toks), <<>>, acc)
           [] t = "]" -> acc
           [] t = ";" -> ParseEntries(Tail(toks), <<>>, Append(acc, cur))
           [] OTHER   -> ParseEntries(Tail(toks), Append(cur, t), acc)

RECURSIVE StrNodes(_)
StrNodes(ts) ==
    IF ts = <<>> THEN <<>> ELSE <<StrNode(Head(ts))>> \o StrNodes(Tail(ts))

Seeding_loads(text) ==
    LET es == ParseEntries(text, <<>>, <<>>)
    IN  [i \in 1..Len(es) |-> [type |-> Head(es[i]), data |-> StrNodes(Tail(es[i]))]]

Pipeline_loads(text) ==
    LET es == ParseEntries(text, <<>>, <<>>)
    IN  [i \in 1..Len(es) |-> [function |-> Head(es[i]), args |-> StrNodes(Tail(es[i]))]]

\* The Text columns: None is the empty text, which `if self.seeding:` and
\* `if self.pipeline:` treat alike.
None == <<>>

\* ------------------------------------------------------- running a query
\* Seeding by neighbours: the edges that touch one of the nodes
SeedNeighbors(g, ns) ==
    LET es == {e \in g.edges : \E i \in 1..Len(ns) : e[1] = ns[i] \/ e[2] = ns[i]}
    IN  [nodes |-> EdgeNodes(es), edges |-> es]

\* Seeding.run: the union of the subgraphs of the seeding operations, the
\* whole graph when there is no seeding operation
RunSeeding(g, s) ==
    IF s = <<>> THEN g
    ELSE [nodes |-> UNION {SeedNeighbors(g, s[i].data).nodes : i \in 1..Len(s)},
          edges |-> UNION {SeedNeighbors(g, s[i].data).edges : i \in 1..Len(s)}]

\* The pipeline function remove_node
RemoveNodes(g, ns) ==
    LET gone == {ns[i] : i \in 1..Len(ns)}
    IN  [nodes |-> g.nodes \ gone,
         edges |-> {e \in g.edges : e[1] \notin gone /\ e[2] \notin gone}]

\* Pipeline.run: the steps in the authored order
RECURSIVE RunPipeline(_, _)
RunPipeline(g, p) ==
    IF p = <<>> THEN g ELSE RunPipeline(RemoveNodes(g, Head(p).args), Tail(p))

\* pybel.struct.query.Query.run on the in-memory query object
QueryRun(pq) == RunPipeline(RunSeeding(union(pq.network_ids), pq.seeding), pq.pipeline)

\* ------------------------------------------------------------------ state
VARIABLES
    queries,      \* the Query objects, by object: columns and the _query attribute
    assemblies,   \* the Assembly rows: the network ids of each, by assembly id
    nextId,       \* the next value of the autoincrement key of the query table
    ran,          \* per Query object, the graph its latest run returned
    dropped,      \* the ids of the rows that the latest delete removed
    experiments,  \* the Experiment rows, by id
    broker,       \* per experiment id, the run tasks waiting for a worker
    workers,      \* per worker process, where it is in run_cmpa and its session
    omics,        \* the Omic rows, by id
    tasks,        \* the messages handed to send_task: task name and args
    response,     \* what the latest request of a view flashed to the user
    reports,      \* the Report rows, by id
    networks,     \* the Network rows, by id
    inbox,        \* the upload messages that wait for a worker
    parsers,      \* per worker process, where it is in async_parser
    now,          \* the wall clock, in hours
    edges,        \* the ids of the Edge rows
    nextEdge,     \* the next value of the autoincrement key of the edge table
    users,        \* the ids of the User rows
    votes,        \* the EdgeVote rows
    nextVote,     \* the next value of the autoincrement key of the vote table
    comments,     \* the EdgeComment rows
    nextComment,  \* the next value of the autoincrement key of the comment table
    returned      \* the latest call of a function: its arguments and what it returned

\* The state of the web requests, of the uploads and of the edge curation
wvars == <<omics, tasks, response>>
pvars == <<reports, networks, inbox, parsers, now>>
gvars == <<edges, nextEdge, users, votes, nextVote, comments, nextComment, returned>>

evars == <<experiments, broker, workers, wvars, pvars, gvars>>
vars == <<queries, assemblies, nextId, ran, dropped, evars>>

Objects == 1..MaxQueries

\* The in-memory pybel query before Query._get_query has built it
NoQuery == [set |-> FALSE, network_ids |-> {}, seeding |-> <<>>, pipeline |-> <<>>]

\* A slot no Query object occupies yet
NoObject ==
    [state |-> "none", id |-> 0, assembly |-> 0, seeding |-> None, pipeline |-> None,
     parent_id |-> 0, parent |-> 0, query |-> NoQuery]

\* Query(...): a new transient object; id and parent_id 0 stand for None,
\* parent is the object given as the relationship attribute (0: not given)
Query(assembly, seeding, pipeline, parent_id, parent) ==
    [state |-> "transient", id |-> 0, assembly |-> assembly, seeding |-> seeding,
     pipeline |-> pipeline, parent_id |-> parent_id, parent |-> parent, query |-> NoQuery]

Live(o) == queries[o].state \in {"transient", "persistent"}
Stored(o) == queries[o].state = "persistent"
Free == {o \in Objects : queries[o].state = "none"}
NewObject == CHOOSE o \in Free : \A p \in Free : o <= p

\* The ids the Experiment rows can take, and the worker processes
ExperimentIds == 1..MaxExperiments
Workers == {1, 2}

\* The result column: NULL until a result is stored
NULL == <<>>

\* Experiment(...) as view_query_uploader builds it: the column defaults
\* give completed = False, result and time NULL (0 stands for no time)
Experiment(query_id) ==
    [query_id |-> query_id, completed |-> FALSE, result |-> NULL, time |-> 0]

\* A worker that runs no task
Idle == [pc |-> "idle", experiment_id |-> 0, experiment |-> Experiment(0)]

NoRun == [done |-> FALSE, graph |-> [nodes |-> {}, edges |-> {}]]

\* The users of the application
Users == {1, 2}

\* The user with CHARLIE_EMAIL
Charlie == 1

\* The values of the args of a task message: the database URI of the
\* application's configuration, and the id of a row
SQLALCHEMY_DATABASE_URI == [type |-> "connection", id |-> 0]
RowId(id) == [type |-> "id", id |-> id]

\* The worker processes that parse
Parsers == {1, 2}

\* A Boolean column with a value
Bool(b) == <<b>>

\* Report(...) as view_parser and make_folder_queue build it: created is
\* the time of the insert, completed is NULL, message is empty ("" stands
\* for NULL) and network is not given (0), unless it is
Report(user, source, created, network) ==
    [user |-> user, source |-> source, created |-> created, completed |-> NULL,
     message |-> "", network |-> network]

\* A graph as the parser returns it: the name and the version of the
\* document, and whether its description, contact or licenses are the ones
\* of dumb_belief_stuff
Graph(name, version, default) == [name |-> name, version |-> version, default |-> default]

\* A worker that parses no document
IdleParser == [pc |-> "idle", report_id |-> 0, graph |-> Graph("", "", FALSE)]

\* No function has been called yet
NoCall == [call |-> ""]

\* No request has flashed anything yet
NoResponse == [view |-> "", flash |-> "", category |-> ""]

Init ==
    /\ queries = [o \in Objects |-> NoObject]
    /\ assemblies = <<>>
    /\ nextId = 1
    /\ ran = [o \in Objects |-> NoRun]
    /\ dropped = {}
    /\ experiments = <<>>
    /\ broker = [e \in ExperimentIds |-> 0]
    /\ workers = [w \in Workers |-> Idle]
    /\ omics = <<>>
    /\ tasks = {}
    /\ response = NoResponse
    /\ reports = <<>>
    /\ networks = <<>>
    /\ inbox = {}
    /\ parsers = [p \in Parsers |-> IdleParser]
    /\ now = 0
    /\ edges = {}
    /\ nextEdge = 1
    /\ users = {}
    /\ votes = {}
    /\ nextVote = 1
    /\ comments = {}
    /\ nextComment = 1
    /\ returned = NoCall

\* ------------------------------------------------------- Query accessors
get_seeding(q) == IF q.seeding # None THEN Seeding_loads(q.seeding) ELSE <<>>

\* A pipeline read back without its steps after the first
get_pipeline_head(q) ==
    IF q.pipeline # None /\ Pipeline_loads(q.pipeline) # <<>>
    THEN <<Head(Pipeline_loads(q.pipeline))>>
    ELSE <<>>

get_pipeline(q) == IF q.pipeline # None THEN Pipeline_loads(q.pipeline) ELSE <<>>

\* The network ids of an Assembly without one of its networks
network_ids_but_one(q) ==
    assemblies[q.assembly] \ {CHOOSE n \in assemblies[q.assembly] : TRUE}

network_ids(q) == assemblies[q.assembly]

\* Query._get_query: build the pybel query on the first call, keep it in
\* the attribute _query and return that same object on every later call
get_query(q) ==
    IF q.query.set THEN q
    ELSE [q EXCEPT !.query = [set |-> TRUE, network_ids |-> network_ids(q),
                              seeding |-> get_seeding(q), pipeline |-> get_pipeline(q)]]

\* Pipeline.append as build_appended uses it: the step is added to the
\* pipeline object itself, which is then dumped
Pipeline_append(p, name, args) == Append(p, Step(name, args))

\* Query.append_seeding_neighbors: the operation is added to the seeding
\* object of the pybel query itself
append_seeding_neighbors(s, nodes) == Append(s, Seed(nodes))

\* ------------------------------------------------------------- factories
\* Query.from_networks / from_network / from_project / from_assembly: a
\* fresh Assembly and a Query on it, no seeding and no pipeline text
from_networks(nets) ==
    /\ Free # {}
    /\ assemblies' = Append(assemblies, nets)
    /\ queries' = [queries EXCEPT ![NewObject] = Query(Len(assemblies) + 1, None, None, 0, 0)]
    /\ UNCHANGED <<nextId, ran, dropped, evars>>

\* Query.from_query / from_query_args: from_networks, then the seeding and
\* the pipeline of the payload are dumped into the text columns
from_query(nets, seeding, pipeline) ==
    /\ Free # {}
    /\ assemblies' = Append(assemblies, nets)
    /\ queries' = [queries EXCEPT ![NewObject] =
                      Query(Len(assemblies) + 1, Seeding_dumps(seeding),
                            Pipeline_dumps(pipeline), 0, 0)]
    /\ UNCHANGED <<nextId, ran, dropped, evars>>

\* ----------------------------------------------------------------- forks
\* Query.get_assembly_query
get_assembly_query(o) ==
    /\ Live(o)
    /\ Free # {}
    /\ queries' = [queries EXCEPT ![NewObject] = Query(queries[o].assembly, None, None, 0, o)]
    /\ UNCHANGED <<assemblies, nextId, ran, dropped, evars>>

\* Query.build_appended
build_appended(o, name, args) ==
    /\ Live(o)
    /\ Free # {}
    /\ LET self == get_query(queries[o])
           pipeline == Pipeline_append(self.query.pipeline, name, args)
       IN  queries' = [queries EXCEPT
                          ![o] = [self EXCEPT !.query.pipeline = pipeline],
                          ![NewObject] = Query(self.assembly, self.seeding,
                                               Pipeline_dumps(pipeline), self.id, 0)]
    /\ UNCHANGED <<assemblies, nextId, ran, dropped, evars>>

\* Query.add_seed_neighbors
add_seed_neighbors(o, nodes) ==
    /\ Live(o)
    /\ Free # {}
    /\ LET self == get_query(queries[o])
           seeding == append_seeding_neighbors(self.query.seeding, nodes)
       IN  queries' = [queries EXCEPT
                          ![o] = [self EXCEPT !.query.seeding = seeding],
                          ![NewObject] = Query(self.assembly, Seeding_dumps(seeding),
                                               self.pipeline, self.id, 0)]
    /\ UNCHANGED <<assemblies, nextId, ran, dropped, evars>>

\* ------------------------------------------------------ reading a query
\* Query.to_json
to_json(o) ==
    /\ Live(o)
    /\ queries' = [queries EXCEPT ![o] = get_query(queries[o])]
    /\ UNCHANGED <<assemblies, nextId, ran, dropped, evars>>

\* Query.run
run(o) ==
    /\ Live(o)
    /\ LET self == get_query(queries[o])
       IN  /\ queries' = [queries EXCEPT ![o] = self]
           /\ ran' = [ran EXCEPT ![o] = [done |-> TRUE, graph |-> QueryRun(self.query)]]
    /\ UNCHANGED <<assemblies, nextId, dropped, evars>>

\* ----------------------------------------------------------- the session
\* A key that is handed out again: every row gets the first id
AllocIdReused(next) == 1

\* The autoincrement primary key of the query table
AllocId(next) == next

\* session.add(q); session.commit(): q is inserted and given its id.  An
\* unsaved Query that q names through the relationship attribute parent is
\* inserted first (save-update cascade) and q.parent_id is set from it; a
\* parent_id given to the constructor is stored as it is.
RECURSIVE Flush(_, _, _)
Flush(qs, o, next) ==
    IF qs[o].state # "transient" THEN [qs |-> qs, next |-> next]
    ELSE LET q   == qs[o]
             up  == IF q.parent # 0 THEN Flush(qs, q.parent, next)
                    ELSE [qs |-> qs, next |-> next]
             pid == IF q.parent # 0 THEN up.qs[q.parent].id ELSE q.parent_id
         IN  [qs   |-> [up.qs EXCEPT ![o] = [q EXCEPT !.state = "persistent",
                                                      !.id = AllocId(up.next),
                                                      !.parent_id = pid]],
              next |-> up.next + 1]

Store(o) ==
    /\ queries[o].state = "transient"
    /\ queries[o].parent # 0 => Live(queries[o].parent)
    /\ LET f == Flush(queries, o, nextId)
       IN  /\ queries' = f.qs
           /\ nextId' = f.next
    /\ UNCHANGED <<assemblies, ran, dropped, evars>>

\* A children collection that also holds the rows with the same parent as
\* the rows with these ids
ChildrenAndSiblings(ids) ==
    LET parents == {queries[p].parent_id : p \in {p \in Objects : Stored(p) /\ queries[p].id \in ids}}
                       \ {0}
    IN  {queries[p].id : p \in {p \in Objects : Stored(p) /\ queries[p].parent_id \in ids \cup parents}}

\* The stored rows that name one of the ids as their parent_id: the
\* children collections of the rows with these ids
Children(ids) ==
    {queries[p].id : p \in {p \in Objects : Stored(p) /\ queries[p].parent_id \in ids}}

\* A cascade that stops at the children of the deleted rows
CascadeToChildren(ids) == ids \cup Children(ids)

\* cascade="all, delete-orphan" on the backref children: the delete of a
\* Query is passed on to its children, and from them to theirs
RECURSIVE Cascade(_)
Cascade(ids) ==
    IF Children(ids) \subseteq ids THEN ids ELSE Cascade(ids \cup Children(ids))

\* session.delete(q); session.commit()
Delete(o) ==
    /\ Stored(o)
    /\ LET gone == Cascade({queries[o].id})
       IN  /\ queries' = [p \in Objects |->
                             IF Stored(p) /\ queries[p].id \in gone
                             THEN [queries[p] EXCEPT !.state = "deleted"]
                             ELSE queries[p]]
           /\ dropped' = gone
    /\ UNCHANGED <<assemblies, nextId, ran, evars>>

\* A later request reads the row into a new Python object: the columns are
\* those of the row, the attribute _query is not there
Reload(o) ==
    /\ Stored(o)
    /\ queries[o].query.set
    /\ queries' = [queries EXCEPT ![o].query = NoQuery]
    /\ UNCHANGED <<assemblies, nextId, ran, dropped, evars>>

\* ------------------------------------------------------------ experiments
qvars == <<queries, assemblies, nextId, ran, dropped>>

\* The outcomes of the random permutations of one scoring
Draws == {1, 2}

\* calculate_scores: a tuple per node of the graph, which depends on the
\* permutations drawn
calculate_scores(graph, draw) == [n \in graph.nodes |-> draw]

\* pickle.dumps of the scores: the blob stored in the result column
pickle_dumps(scores) == <<"pickle", scores>>

HasQuery(id) == \E o \in Objects : Stored(o) /\ queries[o].id = id
QueryRow(id) == CHOOSE o \in Objects : Stored(o) /\ queries[o].id = id

\* experiment.query.run(manager) in the worker: the Query row is read into
\* the worker's own session, so its pybel query is built from the columns
QueryGraph(id) == QueryRun(get_query([queries[QueryRow(id)] EXCEPT !.query = NoQuery]).query)

\* The uploaded files, as lines of fields: a table of two columns, and a
\* file with a line of more fields than its header has
Files == {<<<<"gene", "lfc">>, <<"A", "1">>>>, <<<<"gene", "lfc">>, <<"A", "1", "x">>>>}

\* pandas.read_csv: a line with more fields than the header raises
\* ParserError, else the header gives the columns and the rest the rows
read_csv(data) ==
    IF \E i \in 1..Len(data) : Len(data[i]) > Len(data[1])
    THEN [raised |-> "ParserError", columns |-> <<>>, rows |-> <<>>]
    ELSE [raised |-> "", columns |-> data[1], rows |-> Tail(data)]

\* create_omic: the file is read as a table, and the Omic is built from
\* the table; the Omic is not added to the session
create_omic(data) ==
    LET df == read_csv(data)
    IN  [raised |-> df.raised,
         omic |-> [gene_column |-> "gene", data_column |-> "lfc", source |-> df.rows]]

\* The message of a task: its name and its positional arguments
Task(name, args) == [name |-> name, args |-> args]

\* What a view flashed
Flash(view, message, category) == [view |-> view, flash |-> message, category |-> category]

\* view_query_uploader, a request that passes the if of the parser error
\* although the file did not parse
UploadsDespiteParserError(raised) == TRUE

\* view_query_uploader: the try around create_omic returns the redirect in
\* its except branch, so that the rest runs only without a ParserError
Uploads(raised) == raised # "ParserError"

\* view_query_uploader, with a form that validates: the omic is created;
\* a file that does not parse is answered with a warning; else the
\* Experiment is added and committed (the Omic with it, by the cascade of
\* the session), and then its run task is sent.  A commit that raises
\* leaves the view at once.
view_query_uploader(o, data, commits) ==
    /\ Stored(o)
    /\ LET created == create_omic(data)
           id      == Len(experiments) + 1
       IN  IF ~Uploads(created.raised)
           THEN /\ response' = Flash("view_query_uploader",
                                     "Malformed differential gene expression file.", "warning")
                /\ UNCHANGED <<experiments, omics, broker, tasks>>
           ELSE IF ~commits
           THEN UNCHANGED <<experiments, omics, broker, tasks, response>>
           ELSE /\ Len(experiments) < MaxExperiments
                /\ experiments' = Append(experiments, Experiment(queries[o].id))
                /\ omics' = Append(omics, created.omic)
                /\ broker' = [broker EXCEPT ![id] = @ + 1]
                /\ tasks' = tasks \cup {Task("run-heat-diffusion",
                                              <<SQLALCHEMY_DATABASE_URI, RowId(id)>>)}
                /\ response' = Flash("view_query_uploader", "Queued Experiment", "message")
    /\ UNCHANGED <<qvars, workers, pvars, gvars>>

\* The broker delivers the run task of an experiment once more while a
\* worker still runs it: a task is acknowledged when it ends, and a task
\* that is not acknowledged in time is handed out again
Redeliver(e) ==
    /\ e \in 1..Len(experiments)
    /\ broker[e] = 0
    /\ \E w \in Workers : workers[w].pc = "scored" /\ workers[w].experiment_id = e
    /\ broker' = [broker EXCEPT ![e] = 1]
    /\ UNCHANGED <<qvars, experiments, workers, wvars, pvars, gvars>>

\* An assignment of the result that leaves completed as it was
run_cmpa_result_only(experiment, scores) ==
    [experiment EXCEPT !.result = pickle_dumps(scores)]

\* run_cmpa: the two assignments that follow the scoring
run_cmpa_results(experiment, scores) ==
    [experiment EXCEPT !.result = pickle_dumps(scores), !.completed = TRUE]

\* run_cmpa, from the delivery of the task to the assignments of result and
\* completed on the Experiment object of the task's session: the row is
\* read, the query is run, the scores are computed
run_cmpa_score(w, e, draw) ==
    /\ workers[w].pc = "idle"
    /\ e \in 1..Len(experiments)
    /\ broker[e] > 0
    /\ HasQuery(experiments[e].query_id)
    /\ broker' = [broker EXCEPT ![e] = @ - 1]
    /\ LET graph  == QueryGraph(experiments[e].query_id)
           scores == calculate_scores(graph, draw)
       IN  workers' = [workers EXCEPT ![w] =
                          [pc |-> "scored", experiment_id |-> e,
                           experiment |-> run_cmpa_results(experiments[e], scores)]]
    /\ UNCHANGED <<qvars, experiments, wvars, pvars, gvars>>

\* A worker whose task has raised: the exception has left the task
Raised(e) == [pc |-> "raised", experiment_id |-> e, experiment |-> Experiment(0)]

\* run_cmpa when the query run, the load of the data or the scoring
\* raises: no try encloses them, so the exception leaves the task, and
\* nothing is committed.  The load reads experiment.source, gene_column
\* and data_column, which raise when the Experiment object has no such
\* attribute.
run_cmpa_raise(w, e) ==
    /\ workers[w].pc = "idle"
    /\ e \in 1..Len(experiments)
    /\ broker[e] > 0
    /\ broker' = [broker EXCEPT ![e] = @ - 1]
    /\ workers' = [workers EXCEPT ![w] = Raised(e)]
    /\ UNCHANGED <<qvars, experiments, wvars, pvars, gvars>>

\* The worker process after an exception has left run_cmpa: the task is
\* over, the process waits for the next one
run_cmpa_failed(w) ==
    /\ workers[w].pc = "raised"
    /\ workers' = [workers EXCEPT ![w] = Idle]
    /\ UNCHANGED <<qvars, experiments, broker, wvars, pvars, gvars>>

\* run_cmpa: manager.session.commit() and the return
run_cmpa_commit(w) ==
    /\ workers[w].pc = "scored"
    /\ experiments' = [experiments EXCEPT ![workers[w].experiment_id] = workers[w].experiment]
    /\ workers' = [workers EXCEPT ![w] = Idle]
    /\ UNCHANGED <<qvars, broker, wvars, pvars, gvars>>

\* ------------------------------------------------------------- uploads
rvars == <<experiments, broker, workers>>

\* The BEL documents that are uploaded
Sources ==
    {"unreachable.bel", "redefined.bel", "garbage.bel", "unnamed.bel",
     "unversioned.bel", "default.bel", "A1.bel", "A2.bel"}

\* The number of the Report rows that uploads have stored
Uploaded == Cardinality({r \in 1..Len(reports) : reports[r].network = 0})

\* view_parser, a request that goes on to send_task although the commit
\* raised
SendsDespiteRollback(commits) == TRUE

\* view_parser: the except branch of the commit rolls back, flashes and
\* returns, so that send_task is reached only after a commit that did
\* not raise
Sends(commits) == commits

\* view_parser, with a form that validates: the Report is added and
\* committed; then the summary task or the upload task is sent with the
\* database URI and the id of the Report
view_parser(u, source, feedback, commits) ==
    /\ Uploaded < MaxReports
    /\ LET id      == Len(reports) + 1
           name    == IF feedback THEN "summarize-bel" ELSE "upload-bel"
           message == Task(name, <<SQLALCHEMY_DATABASE_URI, RowId(id)>>)
       IN  /\ reports' = IF commits THEN Append(reports, Report(u, source, now, 0)) ELSE reports
           /\ IF Sends(commits)
              THEN /\ tasks' = tasks \cup {message}
                   /\ inbox' = IF feedback THEN inbox ELSE inbox \cup {message}
                   /\ response' = Flash("view_parser",
                                        IF feedback THEN "Queued email summary task"
                                        ELSE "Queued parsing task", "message")
              ELSE /\ response' = Flash("view_parser", "Unable to upload BEL document", "message")
                   /\ UNCHANGED <<tasks, inbox>>
    /\ UNCHANGED <<qvars, rvars, omics, networks, parsers, now, gvars>>

\* make_folder_queue over the paths of a folder, in their order: for each
\* a Report is added and committed and its upload task is sent with the id
\* of the Report; the commit of the path failing (0: of none) raises, which
\* ends the loop
make_folder_queue(u, folder, failing) ==
    /\ Uploaded + Len(folder) <= MaxReports
    /\ failing \in 0..Len(folder)
    /\ LET stored == IF failing = 0 THEN Len(folder) ELSE failing - 1
           sent   == {Task("upload-bel", <<RowId(Len(reports) + i)>>) : i \in 1..stored}
       IN  /\ reports' = reports \o [i \in 1..stored |-> Report(u, folder[i], now, 0)]
           /\ tasks' = tasks \cup sent
           /\ inbox' = inbox \cup sent
           /\ response' = IF failing = 0 THEN response
                          ELSE Flash("make_folder_queue", "Unable to upload BEL document", "message")
    /\ UNCHANGED <<qvars, rvars, omics, networks, parsers, now, gvars>>

\* The clock advances by an hour
Tick ==
    /\ now < MaxHours
    /\ now' = now + 1
    /\ UNCHANGED <<qvars, rvars, wvars, reports, networks, inbox, parsers, gvars>>

\* Report.incomplete
incomplete(report) == report.completed = NULL /\ report.message = ""

\* Report.failed
failed(report) == report.completed # NULL /\ report.completed # Bool(TRUE)

\* Report.stalled when the age counts from an hour earlier
stalled_early(report) == now - report.created > 2

\* Report.stalled: the report was created more than three hours ago
stalled(report) == now - report.created > 3

\* ---------------------------------------------------------- async_parser
\* Report.parse_graph: what the parser raises, and the graph it returns
parse_graph(source) ==
    CASE source = "unreachable.bel" -> [raised |-> "ConnectionError", graph |-> Graph("", "", FALSE)]
      [] source = "redefined.bel" ->
            [raised |-> "InconsistentDefinitionError", graph |-> Graph("", "", FALSE)]
      [] source = "garbage.bel" -> [raised |-> "Exception", graph |-> Graph("", "", FALSE)]
      [] source = "unnamed.bel" -> [raised |-> "", graph |-> Graph("", "1", FALSE)]
      [] source = "unversioned.bel" -> [raised |-> "", graph |-> Graph("A", "", FALSE)]
      [] source = "default.bel" -> [raised |-> "", graph |-> Graph("D", "1", TRUE)]
      [] source = "A2.bel" -> [raised |-> "", graph |-> Graph("A", "2", FALSE)]
      [] OTHER -> [raised |-> "", graph |-> Graph("A", "1", FALSE)]

\* The messages of the except branches of the parse
parsing_failed(raised) ==
    CASE raised = "ConnectionError" -> "Connection to resource could not be established."
      [] raised = "InconsistentDefinitionError" -> "Parsing failed because a definition was redefined."
      [] OTHER -> "Parsing failed from a general error."

\* integrity_message.format(graph.name, graph.version)
integrity_message(name, version) == "Database error. " \o name \o " v" \o version \o " already exists."

\* A Network row as insert_graph stores it
Network(graph) == [name |-> graph.name, version |-> graph.version, users |-> {}]

\* The Network rows with the name and the version of the graph
Lookup(nets, graph) ==
    {n \in 1..Len(nets) : nets[n].name = graph.name /\ nets[n].version = graph.version}

\* network.report: the Report rows that name the network
NetworkReport(n) == {r \in 1..Len(reports) : reports[r].network = n}

\* finish_parsing: the message is set on the Report and committed
finish_parsing(rs, r, message) == [rs EXCEPT ![r].message = message]

\* A network table that takes a second row of a name and version
NoConflicts(nets, graph) == FALSE

\* insert_graph raises IntegrityError: the name and the version of a
\* Network are unique together
Conflicts(nets, graph) == Lookup(nets, graph) # {}

\* async_parser called with the args of a message that has not two of
\* them: the call raises TypeError
async_parser_badcall(p, m) ==
    /\ parsers[p].pc = "idle"
    /\ m \in inbox
    /\ Len(m.args) # 2
    /\ inbox' = inbox \ {m}
    /\ parsers' = [parsers EXCEPT ![p] = [IdleParser EXCEPT !.pc = "raised"]]
    /\ UNCHANGED <<qvars, rvars, wvars, reports, networks, now, gvars>>

\* async_parser, from the delivery of the task to the enrichment of the
\* graph: the Report is read, its document is parsed, the graph is checked
\* and a Network of its name and version is looked up.  tampered: the
\* stored blob of that Network differs from its serialization.  A Network
\* that no Report names has report None, so that network.report.user
\* raises, outside every try.
async_parser_parse(p, m, tampered) ==
    /\ parsers[p].pc = "idle"
    /\ m \in inbox
    /\ Len(m.args) = 2
    /\ inbox' = inbox \ {m}
    /\ LET r      == m.args[2].id
           report == reports[r]
           parsed == parse_graph(report.source)
           graph  == parsed.graph
           found  == Lookup(networks, graph)
           finish(message) ==
               /\ reports' = finish_parsing(reports, r, message)
               /\ parsers' = parsers
               /\ networks' = networks
       IN  IF parsed.raised # "" THEN finish(parsing_failed(parsed.raised))
           ELSE IF graph.name = "" THEN finish("Graph does not have a name")
           ELSE IF graph.version = "" THEN finish("Graph does not have a version")
           ELSE IF graph.default THEN finish("Your document was rejected because it has default metadata")
           ELSE IF found # {}
           THEN LET n == CHOOSE n \in found : TRUE
                IN  IF NetworkReport(n) = {}
                    THEN /\ parsers' = [parsers EXCEPT ![p] = [IdleParser EXCEPT !.pc = "raised"]]
                         /\ UNCHANGED <<reports, networks>>
                    ELSE IF reports[CHOOSE o \in NetworkReport(n) : TRUE].user = report.user \/ tampered
                    THEN finish(integrity_message(graph.name, graph.version))
                    ELSE /\ networks' = [networks EXCEPT ![n].users = @ \cup {report.user}]
                         /\ reports' = finish_parsing(reports, r, "Granted rights")
                         /\ parsers' = parsers
           ELSE /\ parsers' = [parsers EXCEPT ![p] = [pc |-> "enriched", report_id |-> r, graph |-> graph]]
                /\ UNCHANGED <<reports, networks>>
    /\ UNCHANGED <<qvars, rvars, wvars, now, gvars>>

\* async_parser, from insert_graph to the return: the insert stores the
\* Network or raises; an exception is answered with a rollback and a
\* message on the Report; after the insert the Report is completed
async_parser_insert(p, raised) ==
    /\ parsers[p].pc = "enriched"
    /\ LET r     == parsers[p].report_id
           graph == parsers[p].graph
       IN  IF Conflicts(networks, graph)
           THEN /\ reports' = finish_parsing(reports, r, integrity_message(graph.name, graph.version))
                /\ networks' = networks
           ELSE IF raised = "OperationalError"
           THEN /\ reports' = finish_parsing(reports, r, "Database is locked. Unable to upload.")
                /\ networks' = networks
           ELSE IF raised = "Exception"
           THEN /\ reports' = finish_parsing(reports, r, "Error storing in database")
                /\ networks' = networks
           ELSE /\ networks' = Append(networks, Network(graph))
                /\ reports' = [reports EXCEPT ![r].completed = Bool(TRUE)]
    /\ parsers' = [parsers EXCEPT ![p] = IdleParser]
    /\ UNCHANGED <<qvars, rvars, wvars, inbox, now, gvars>>

\* The worker process after an exception has left async_parser
async_parser_failed(p) ==
    /\ parsers[p].pc = "raised"
    /\ parsers' = [parsers EXCEPT ![p] = IdleParser]
    /\ UNCHANGED <<qvars, rvars, wvars, reports, networks, inbox, now, gvars>>

\* sanitize_reports: every Network without a Report gets one, of Charlie
sanitize_reports ==
    LET unreported == {n \in 1..Len(networks) : NetworkReport(n) = {}}
        RECURSIVE added(_)
        added(n) ==
            IF n > Len(networks) THEN <<>>
            ELSE IF n \in unreported THEN <<Report(Charlie, "", now, n)>> \o added(n + 1)
            ELSE added(n + 1)
    IN  /\ unreported # {}
        /\ reports' = reports \o added(1)
        /\ UNCHANGED <<qvars, rvars, wvars, networks, inbox, parsers, now, gvars>>

\* ------------------------------------------------------- edge curation
\* Edge(...), added and committed
add_edge ==
    /\ nextEdge <= MaxEdges
    /\ edges' = edges \cup {nextEdge}
    /\ nextEdge' = nextEdge + 1
    /\ UNCHANGED <<qvars, rvars, wvars, pvars, users, votes, nextVote, comments, nextComment>>
    /\ UNCHANGED returned

\* User(), added and committed
add_user(u) ==
    /\ u \notin users
    /\ users' = users \cup {u}
    /\ UNCHANGED <<qvars, rvars, wvars, pvars, edges, nextEdge, votes, nextVote, comments,
                   nextComment>>
    /\ UNCHANGED returned

\* The row that the insert of EdgeVote(user=u, edge=e, agreed=agreed) stores:
\* agreed is a nullable Boolean, and changed, which the constructor leaves
\* unset, takes its column default, the time of the insert
EdgeVote(id, u, e, agreed) ==
    [id |-> id, edge_id |-> e, user_id |-> u, agreed |-> agreed, changed |-> <<now>>]

\* EdgeVote(user=u, edge=e), added and committed: an edge has one vote
\* of a user at most
add_vote(u, e) ==
    /\ u \in users /\ e \in edges
    /\ nextVote <= MaxVotes
    /\ ~\E v \in votes : v.edge_id = e /\ v.user_id = u
    /\ votes' = votes \cup {EdgeVote(nextVote, u, e, NULL)}
    /\ nextVote' = nextVote + 1
    /\ UNCHANGED <<qvars, rvars, wvars, pvars, edges, nextEdge, users, comments, nextComment>>
    /\ UNCHANGED returned

\* User.get_vote(edge): the votes of the user on the edge
get_vote(u, e) == {v \in votes : v.edge_id = e /\ v.user_id = u}

\* get_or_create_vote(manager, edge, user, agreed): the vote of the pair is
\* looked up; when there is none an EdgeVote with the agreed flag is added
\* and committed, else the existing vote takes the flag and the time of the
\* change
get_or_create_vote(u, e, agreed) ==
    /\ u \in users /\ e \in edges
    /\ IF get_vote(u, e) = {}
       THEN /\ nextVote <= MaxVotes
            /\ votes' = votes \cup {EdgeVote(nextVote, u, e, Bool(agreed))}
            /\ nextVote' = nextVote + 1
       ELSE /\ votes' = (votes \ get_vote(u, e))
                           \cup {[v EXCEPT !.agreed = Bool(agreed), !.changed = <<now>>] :
                                     v \in get_vote(u, e)}
            /\ UNCHANGED nextVote
    /\ UNCHANGED <<qvars, rvars, wvars, pvars, edges, nextEdge, users, comments, nextComment>>
    /\ UNCHANGED returned

\* EdgeComment(user=u, edge=e, comment=...), added and committed
add_comment(u, e) ==
    /\ u \in users /\ e \in edges
    /\ nextComment <= MaxComments
    /\ comments' = comments \cup {[id |-> nextComment, edge_id |-> e, user_id |-> u]}
    /\ nextComment' = nextComment + 1
    /\ UNCHANGED <<qvars, rvars, wvars, pvars, edges, nextEdge, users, votes, nextVote>>
    /\ UNCHANGED returned

\* Edge.votes, the backref of EdgeVote.edge
Edge_votes(e) == {v \in votes : v.edge_id = e}

\* A cascade that takes the comments of every edge
Every_comment(e) == comments

\* Edge.comments, the backref of EdgeComment.edge
Edge_comments(e) == {c \in comments : c.edge_id = e}

\* session.delete(edge) and the commit: the delete cascades to the votes
\* and to the comments of the edge
delete_edge(e) ==
    /\ e \in edges
    /\ edges' = edges \ {e}
    /\ votes' = votes \ Edge_votes(e)
    /\ comments' = comments \ Edge_comments(e)
    /\ UNCHANGED <<qvars, rvars, wvars, pvars, nextEdge, users, nextVote, nextComment>>
    /\ UNCHANGED returned

\* ------------------------------------------------- experiment comparison
\* The nodes of the graphs as (function, namespace, name), in sorted order
Entities == <<<<"Protein", "HGNC", "AKT1">>, <<"Protein", "HGNC", "EGFR">>>>

\* The result tuples of a node: position 1 is scores[0] and position 4 is
\* values[3], the median; the numbers count hundred-thousandths
Scores == {<<0, 0, 0, 4>>, <<1, 0, 0, 4>>, <<1, 0, 0, 16>>}

\* Experiment.get_results_df: loads(self.result)
get_results_df(experiment) == experiment.result[2]

\* Experiment.get_data_list: the nodes of the result whose scores[0] is truthy
get_data_list(experiment) ==
    LET df == get_results_df(experiment)
    IN  [node \in {n \in DOMAIN df : df[n][1] # 0} |-> df[node]]

\* The Experiments that a comparison is asked for: the rows with ids 1.. in
\* order, each without a result or with the pickled scores of some nodes
Comparisons ==
    LET results == UNION {[S -> Scores] : S \in SUBSET {Entities[i] : i \in DOMAIN Entities}}
        rows    == {NULL} \cup {pickle_dumps(r) : r \in results}
    IN  UNION {[1..n -> rows] : n \in 1..MaxCompared}

\* A cell that pandas found no value for
NaN == -1

\* DataFrame.round(4) of a cell
round4(x) == ((x + 5) \div 10) * 10

\* KMeans(n_clusters, random_state).fit(X).labels_: a label in 0..n_clusters-1
\* per row, drawn by a generator that the random state seeds, when there is
\* one, and that takes its state from the process otherwise
KMeans_labels(X, n_clusters, random_state, entropy) ==
    LET start == IF random_state # NULL THEN random_state[1] ELSE entropy
        RECURSIVE sum(_)
        sum(cells) == IF cells = <<>> THEN 0 ELSE Head(cells) + sum(Tail(cells))
    IN  [i \in DOMAIN X |-> (sum(X[i]) \div 10 + start + i) % n_clusters]

\* Labels that start at 0
Group_from_zero(labels) == labels

\* df['Group'] = km.labels_ + 1
Group(labels) == [i \in DOMAIN labels |-> labels[i] + 1]

\* get_dataframe_from_experiments(experiments, normalize=0, clusters, seed):
\* the table as its column labels (the experiment ids) and its rows, each
\* the entity, the cells of the data columns and the Group (0: no Group
\* column), or the exception that leaves the function
get_dataframe_from_experiments(exps, clusters, seed, entropy) ==
    LET compared == SelectSeq(exps, LAMBDA e : e.result # NULL)
        x_label  == [i \in DOMAIN compared |-> compared[i].id]
        has(e, entity) == entity \in DOMAIN get_data_list(e)
        \* entries[func, namespace, name]: one value appended per experiment
        \* that lists the entity
        entries(entity) ==
            LET listing == SelectSeq(compared, LAMBDA e : has(e, entity))
            IN  [i \in DOMAIN listing |-> get_data_list(listing[i])[entity][4]]
        \* the keys of entries in the order of their insertion
        RECURSIVE keys(_, _)
        keys(i, acc) ==
            IF i > Len(compared) THEN acc
            ELSE keys(i + 1, acc \o SelectSeq(Entities, LAMBDA entity :
                                     /\ has(compared[i], entity)
                                     /\ \A j \in DOMAIN acc : acc[j] # entity))
        result   == [i \in DOMAIN keys(1, <<>>) |->
                        [entry |-> keys(1, <<>>)[i], cells |-> entries(keys(1, <<>>)[i])]]
        width    == IF result = <<>> THEN Len(x_label)
                    ELSE CHOOSE n \in 0..MaxCompared + 1 :
                             /\ \E i \in DOMAIN result : Len(result[i].cells) = n
                             /\ \A i \in DOMAIN result : Len(result[i].cells) <= n
        \* pd.DataFrame(result, columns=x_label): short rows are padded
        padded   == [i \in DOMAIN result |->
                        [j \in DOMAIN x_label |->
                            IF j <= Len(result[i].cells) THEN result[i].cells[j] ELSE NaN]]
        \* df.fillna(0).round(4)
        data     == [i \in DOMAIN padded |->
                        [j \in DOMAIN x_label |->
                            round4(IF padded[i][j] = NaN THEN 0 ELSE padded[i][j])]]
        df(groups) == [i \in DOMAIN result |->
                          [entry |-> result[i].entry, cells |-> data[i], Group |-> groups[i]]]
        labelled == df(Group(KMeans_labels(data, clusters[1], seed, entropy)))
        \* df.sort_values('Group')
        RECURSIVE sort_values(_)
        sort_values(rows) ==
            IF rows = <<>> THEN <<>>
            ELSE LET least == CHOOSE g \in {rows[i].Group : i \in DOMAIN rows} :
                                  \A i \in DOMAIN rows : g <= rows[i].Group
                 IN  SelectSeq(rows, LAMBDA row : row.Group = least)
                         \o sort_values(SelectSeq(rows, LAMBDA row : row.Group # least))
    IN  IF width # Len(x_label)
        THEN [raised |-> "ValueError", columns |-> <<>>, rows |-> <<>>]
        ELSE IF clusters = NULL
        THEN [raised |-> "", columns |-> x_label, rows |-> df([i \in DOMAIN result |-> 0])]
        ELSE IF Len(result) < clusters[1]
        THEN [raised |-> "ValueError", columns |-> <<>>, rows |-> <<>>]
        ELSE [raised |-> "", columns |-> x_label, rows |-> sort_values(labelled)]

\* GET /comparison/<experiment_ids>.tsv with the arguments clusters and seed:
\* the request that download_experiment_comparison serves
comparison_request(results, clusters, seed) ==
    /\ returned = NoCall
    /\ returned' = [call |-> "get_dataframe_from_experiments",
                    experiments |-> [i \in DOMAIN results |-> [id |-> i, result |-> results[i]]],
                    clusters |-> clusters, seed |-> seed, done |-> FALSE]
    /\ UNCHANGED <<qvars, rvars, wvars, pvars, edges, nextEdge, users, votes, nextVote,
                   comments, nextComment>>

\* download_experiment_comparison: the table of the experiments is built
download_experiment_comparison(entropy) ==
    /\ returned.call = "get_dataframe_from_experiments"
    /\ returned' = [call |-> returned.call, experiments |-> returned.experiments,
                    clusters |-> returned.clusters, seed |-> returned.seed, done |-> TRUE,
                    df |-> get_dataframe_from_experiments(returned.experiments,
                               returned.clusters, returned.seed, entropy)]
    /\ UNCHANGED <<qvars, rvars, wvars, pvars, edges, nextEdge, users, votes, nextVote,
                   comments, nextComment>>

\* ------------------------------------------------------- the omic source
\* The tables that an Omic holds as its pickled source: the columns gene,
\* note and lfc, and rows whose gene is read as null ("": an empty field)
\* or names a gene
SourceTables ==
    LET lines == {<<gene, "x", value>> : gene \in {"", "A", "B"}, value \in {1, 2}}
    IN  {[columns |-> <<"gene", "note", "lfc">>, rows |-> rows] :
            rows \in UNION {[1..n -> lines] : n \in 0..MaxRows}}

\* A test that every gene passes
notnull_or_null(gene) == TRUE

\* Series.notnull of a cell of the gene column
notnull(gene) == gene # ""

\* Omic.get_source_dict: the rows with a gene, as a dictionary from the
\* gene column to the data column; a later row of a gene replaces an
\* earlier one
get_source_dict(omic) ==
    LET df   == omic.source
        at(name) == CHOOSE i \in DOMAIN df.columns : df.columns[i] = name
        kept == SelectSeq(df.rows, LAMBDA row : notnull(row[at(omic.gene_column)]))
        last(gene) == CHOOSE i \in DOMAIN kept :
                          /\ kept[i][at(omic.gene_column)] = gene
                          /\ \A j \in DOMAIN kept :
                                 kept[j][at(omic.gene_column)] = gene => j <= i
    IN  [gene \in {kept[i][at(omic.gene_column)] : i \in DOMAIN kept} |->
            kept[last(gene)][at(omic.data_column)]]

\* A call of get_source_dict on an Omic with the table as its source
Omic_get_source_dict(df) ==
    /\ returned = NoCall
    /\ LET omic == [gene_column |-> "gene", data_column |-> "lfc", source |-> df]
       IN  returned' = [call |-> "get_source_dict", omic |-> omic,
                        result |-> get_source_dict(omic)]
    /\ UNCHANGED <<qvars, rvars, wvars, pvars, edges, nextEdge, users, votes, nextVote,
                   comments, nextComment>>

\* ------------------------------------------------------ experiment rights
\* User.__eq__: two users are equal when their emails are
User_eq(self, other) == self.email = other.email

\* User.has_experiment_rights
has_experiment_rights(self, experiment) ==
    experiment.public \/ self.is_admin \/ User_eq(self, experiment.user)

\* A call of has_experiment_rights by one of the stored users on an
\* Experiment of one of them.  The email column is unique and nullable:
\* the emails that are set differ, and several users can have none.
experiment_rights(user, owner, emails, admins, public) ==
    /\ returned = NoCall
    /\ \A u, v \in Users : (u # v /\ emails[u] # NULL) => emails[u] # emails[v]
    /\ LET row(u) == [id |-> u, email |-> emails[u], is_admin |-> admins[u]]
           experiment == [public |-> public, user |-> row(owner)]
       IN  returned' = [call |-> "has_experiment_rights", self |-> row(user),
                        experiment |-> experiment,
                        result |-> has_experiment_rights(row(user), experiment)]
    /\ UNCHANGED <<qvars, rvars, wvars, pvars, edges, nextEdge, users, votes, nextVote,
                   comments, nextComment>>

\* ------------------------------------------------------- network overlap
\* An overlap built from the networks in the order they are given in
build_as_given(left, right, overlap) ==
    [left |-> left, right |-> right, overlap |-> overlap]

\* NetworkOverlap.build: the network with the smaller id becomes the right
\* one
build(left, right, overlap) ==
    IF left.id < right.id
    THEN [left |-> right, right |-> left, overlap |-> overlap]
    ELSE [left |-> left, right |-> right, overlap |-> overlap]

\* A call of NetworkOverlap.build on two stored networks
NetworkOverlap_build(a, b, overlap) ==
    /\ returned = NoCall
    /\ returned' = [call |-> "build", left |-> [id |-> a], right |-> [id |-> b],
                    overlap |-> overlap,
                    result |-> build([id |-> a], [id |-> b], overlap)]
    /\ UNCHANGED <<qvars, rvars, wvars, pvars, edges, nextEdge, users, votes, nextVote,
                   comments, nextComment>>

\* ------------------------------------------------------- specification
\* The operations that build, fork and read queries
NextFork ==
    \/ \E nets \in {{1}, NetworkIds} : from_networks(nets)
    \/ \E nets \in {NetworkIds}, s \in {<<Seed(<<1>>)>>},
          p \in {<<Step("remove_node", <<3>>)>>} : from_query(nets, s, p)
    \/ \E o \in Objects : get_assembly_query(o)
    \/ \E o \in Objects, name \in FunctionNames, args \in ArgLists :
           build_appended(o, name, args)
    \/ \E o \in Objects, nodes \in NodeLists : add_seed_neighbors(o, nodes)
    \/ \E o \in Objects : to_json(o)
    \/ \E o \in Objects : run(o)
    \/ \E o \in Objects : Store(o)
    \/ \E o \in Objects : Reload(o)

ForkSpec == Init /\ [][NextFork]_vars

\* The operations that change the parent relation of the stored queries
NextTree ==
    \/ \E nets \in {NetworkIds} : from_networks(nets)
    \/ \E nets \in {NetworkIds}, s \in {<<>>}, p \in {<<>>} : from_query(nets, s, p)
    \/ \E o \in Objects : get_assembly_query(o)
    \/ \E o \in Objects, name \in FunctionNames, args \in {<<1>>} :
           build_appended(o, name, args)
    \/ \E o \in Objects, nodes \in {<<1>>} : add_seed_neighbors(o, nodes)
    \/ \E o \in Objects : Store(o)
    \/ \E o \in Objects : Delete(o)

TreeSpec == Init /\ [][NextTree]_vars

\* The operations of the experiment lifecycle, on queries built from networks
NextExperiment ==
    \/ \E nets \in {NetworkIds} : from_networks(nets)
    \/ \E o \in Objects : Store(o)
    \/ \E o \in Objects, data \in {d \in Files : read_csv(d).raised = ""} :
           view_query_uploader(o, data, TRUE)
    \/ \E e \in ExperimentIds : Redeliver(e)
    \/ \E w \in Workers, e \in ExperimentIds, draw \in Draws : run_cmpa_score(w, e, draw)
    \/ \E w \in Workers, e \in ExperimentIds : run_cmpa_raise(w, e)
    \/ \E w \in Workers : run_cmpa_failed(w)
    \/ \E w \in Workers : run_cmpa_commit(w)

ExperimentSpec == Init /\ [][NextExperiment]_vars

\* The views that store a row and send its task; the experiments are
\* uploaded against the first Query
NextUpload ==
    \/ \E nets \in {NetworkIds} : from_networks(nets)
    \/ \E o \in {1} : Store(o)
    \/ \E o \in {1}, data \in Files, commits \in BOOLEAN : view_query_uploader(o, data, commits)
    \/ \E u \in {1}, source \in {"A1.bel"}, feedback \in BOOLEAN, commits \in BOOLEAN :
           view_parser(u, source, feedback, commits)
    \/ \E u \in {1}, folder \in {<<"A1.bel">>, <<"A1.bel", "A2.bel">>}, failing \in 0..2 :
           make_folder_queue(u, folder, failing)

UploadSpec == Init /\ [][NextUpload]_vars

\* The uploads of BEL documents and the workers that parse them
NextParser ==
    \/ \E u \in Users, source \in Sources : view_parser(u, source, FALSE, TRUE)
    \/ \E u \in {Charlie}, folder \in {<<"A1.bel">>} : make_folder_queue(u, folder, 0)
    \/ \E p \in Parsers, m \in inbox : async_parser_badcall(p, m)
    \/ \E p \in Parsers, m \in inbox, tampered \in BOOLEAN : async_parser_parse(p, m, tampered)
    \/ \E p \in Parsers, raised \in {"", "OperationalError", "Exception"} :
           async_parser_insert(p, raised)
    \/ \E p \in Parsers : async_parser_failed(p)
    \/ sanitize_reports

ParserSpec == Init /\ [][NextParser]_vars

\* The Reports of uploads as the clock advances
NextReport ==
    \/ \E u \in {1}, source \in {"garbage.bel", "A1.bel"}, commits \in {TRUE} :
           view_parser(u, source, FALSE, commits)
    \/ \E p \in {1}, m \in inbox : async_parser_parse(p, m, FALSE)
    \/ \E p \in {1}, raised \in {""} : async_parser_insert(p, raised)
    \/ Tick

ReportSpec == Init /\ [][NextReport]_vars

\* The curation of edges: users, votes, comments and the delete of an edge
NextEdge ==
    \/ add_edge
    \/ \E u \in Users : add_user(u)
    \/ \E u \in Users, e \in 1..MaxEdges : add_vote(u, e)
    \/ \E u \in Users, e \in 1..MaxEdges : add_comment(u, e)
    \/ \E e \in 1..MaxEdges : delete_edge(e)

EdgeSpec == Init /\ [][NextEdge]_vars

\* The votes of users on edges as the clock advances
NextVote ==
    \/ add_edge
    \/ \E u \in Users : add_user(u)
    \/ \E u \in Users, e \in {1}, agreed \in BOOLEAN : get_or_create_vote(u, e, agreed)
    \/ Tick

VoteSpec == Init /\ [][NextVote]_vars

\* The comparisons of experiments, with and without clusters and seed
NextTable ==
    \/ /\ returned = NoCall
       /\ \E results \in Comparisons, clusters \in {NULL, <<1>>, <<2>>}, seed \in {NULL, <<7>>} :
              comparison_request(results, clusters, seed)
    \/ \E entropy \in {0, 1} : download_experiment_comparison(entropy)

TableSpec == Init /\ [][NextTable]_vars

\* What from_query_args is given: network ids, a seeding and a pipeline
Payloads ==
    [network_ids : {{1}, NetworkIds},
     seeding     : {<<>>, <<Seed(<<1>>)>>, <<Seed(<<3>>), Seed(<<1>>)>>},
     pipeline    : {<<>>, <<Step("remove_node", <<3>>)>>,
                    <<Step("remove_node", <<3>>), Step("remove_node", <<1>>)>>}]

\* The queries built from payloads of network ids, seeding and pipeline,
\* and the runs of the first of them
NextPayload ==
    \/ \E d \in Payloads : from_query(d.network_ids, d.seeding, d.pipeline)
    \/ \E o \in {1} : run(o)

PayloadSpec == Init /\ [][NextPayload]_vars

\* The reads of the gene-to-value dictionary of an Omic
NextSource ==
    \/ \E df \in SourceTables : Omic_get_source_dict(df)

SourceSpec == Init /\ [][NextSource]_vars

\* The checks of the rights of a user to an Experiment
NextRights ==
    \/ \E user \in Users, owner \in Users,
          emails \in [Users -> {NULL, <<"a@example.com">>, <<"b@example.com">>,
                                <<"c@example.com">>}],
          admins \in [Users -> BOOLEAN], public \in BOOLEAN :
           experiment_rights(user, owner, emails, admins, public)

RightsSpec == Init /\ [][NextRights]_vars

\* The overlaps built of pairs of networks, the overlap in percent
NextOverlap ==
    \/ \E a \in 1..MaxNetworkId, b \in 1..MaxNetworkId, overlap \in {0, 25, 50, 75, 100} :
           NetworkOverlap_build(a, b, overlap)

OverlapSpec == Init /\ [][NextOverlap]_vars

\* ================================================================ claims
\* The parent relation of the stored rows, read upwards
StoredIds(qs) == {qs[o].id : o \in {o \in Objects : qs[o].state = "persistent"}}

ParentIds(qs, id) ==
    {qs[o].parent_id : o \in {o \in Objects : qs[o].state = "persistent" /\ qs[o].id = id}}
        \cap StoredIds(qs)

\* target is the row id itself or is met within n steps up its parent chain
RECURSIVE ChainIncludes(_, _, _, _)
ChainIncludes(qs, id, target, n) ==
    \/ id = target
    \/ /\ n > 0
       /\ \E pid \in ParentIds(qs, id) : ChainIncludes(qs, pid, target, n - 1)

\* C1: a delete of a Query removes exactly the stored Queries whose parent
\* chain includes it (the Query itself and its descendants at any depth);
\* every other stored Query is still stored after the delete.
C1_DeleteCascades ==
    [][\A o \in Objects :
          Delete(o) =>
              \A p \in Objects :
                  queries[p].state = "persistent" =>
                      (queries'[p].state = "persistent"
                          <=> ~ChainIncludes(queries, queries[p].id, queries[o].id, MaxQueries))]_vars

\* C1 witness: one delete removed a Query, its child and its grandchild
C1_Witness ==
    \E a, b, c \in Objects :
        /\ {queries[a].id, queries[b].id, queries[c].id} = dropped
        /\ queries[a].state = "deleted" /\ queries[b].state = "deleted"
        /\ queries[c].state = "deleted"
        /\ queries[a].parent_id = 0
        /\ queries[b].parent_id = queries[a].id
        /\ queries[c].parent_id = queries[b].id
        /\ Cardinality(dropped) = 3

\* C6: the parent relation over the stored Queries has no cycle: no stored
\* Query is met again on the way up its own parent chain.
C6_NoCycle ==
    \A id \in StoredIds(queries) :
        \A pid \in ParentIds(queries, id) : ~ChainIncludes(queries, pid, id, MaxQueries)

\* C6 witness: a stored fork of a stored fork, after a delete has removed
\* another Query
C6_Witness ==
    \E a, b \in Objects :
        /\ Stored(a) /\ Stored(b)
        /\ queries[b].parent_id = queries[a].id
        /\ queries[a].parent_id # 0
        /\ dropped # {}

\* What Query.to_json and Query.run of a Query object work on: the seeding
\* and the pipeline of the pybel query that _get_query returns
Effective(q) ==
    [seeding |-> get_query(q).query.seeding, pipeline |-> get_query(q).query.pipeline]

\* C2: build_appended and add_seed_neighbors leave the Query they are called
\* on as it was: the stored seeding and pipeline text, and the seeding and
\* the pipeline that its to_json and run use.
C2_ForkLeavesSelf ==
    [][\A o \in Objects :
          (\/ \E name \in FunctionNames, args \in ArgLists : build_appended(o, name, args)
           \/ \E nodes \in NodeLists : add_seed_neighbors(o, nodes))
          => /\ queries'[o].seeding = queries[o].seeding
             /\ queries'[o].pipeline = queries[o].pipeline
             /\ Effective(queries'[o]) = Effective(queries[o])]_vars

\* C3: build_appended returns a Query with the assembly and the seeding of
\* the Query it is called on and with that Query's pipeline followed by the
\* one new step, on every call; the call runs nothing.
C3_AppendedPipeline ==
    [][\A o \in Objects, name \in FunctionNames, args \in ArgLists :
          build_appended(o, name, args)
          => /\ queries'[NewObject].assembly = queries[o].assembly
             /\ queries'[NewObject].seeding = queries[o].seeding
             /\ get_pipeline(queries'[NewObject])
                    = Append(get_pipeline(queries[o]), Step(name, args))
             /\ ran' = ran]_vars

\* C4: add_seed_neighbors returns a Query with the assembly and the pipeline
\* of the Query it is called on and with that Query's seeding followed by
\* the one new neighbors operation, on every call.
C4_AppendedSeeding ==
    [][\A o \in Objects, nodes \in NodeLists :
          add_seed_neighbors(o, nodes)
          => /\ queries'[NewObject].assembly = queries[o].assembly
             /\ queries'[NewObject].pipeline = queries[o].pipeline
             /\ get_seeding(queries'[NewObject])
                    = Append(get_seeding(queries[o]), Seed(nodes))]_vars

\* The Query object that is the parent of object c: the one given as the
\* relationship attribute, else the row that parent_id names (0: no parent)
ParentObject(qs, c) ==
    IF qs[c].parent # 0 THEN qs[c].parent
    ELSE IF qs[c].parent_id = 0 THEN 0
    ELSE IF \E o \in Objects : qs[o].state = "persistent" /\ qs[o].id = qs[c].parent_id
         THEN CHOOSE o \in Objects : qs[o].state = "persistent" /\ qs[o].id = qs[c].parent_id
         ELSE 0

\* C5: the Query that build_appended, add_seed_neighbors or
\* get_assembly_query returns has the Query it was built from as parent,
\* stored or not.
C5_ForkParent ==
    [][\A o \in Objects :
          (\/ get_assembly_query(o)
           \/ \E name \in FunctionNames, args \in ArgLists : build_appended(o, name, args)
           \/ \E nodes \in NodeLists : add_seed_neighbors(o, nodes))
          => ParentObject(queries', NewObject) = o]_vars

\* C7: p.append(s), as build_appended calls it on the pipeline p of the
\* pybel query, leaves p as it was and returns a pipeline one step longer
\* whose first len(p) steps are p.
C7_AppendLeavesPipeline ==
    [][\A o \in Objects, name \in FunctionNames, args \in ArgLists :
          build_appended(o, name, args)
          => LET p   == get_query(queries[o]).query.pipeline
                 ret == Pipeline_append(p, name, args)
             IN  /\ queries'[o].query.pipeline = p
                 /\ Len(ret) = Len(p) + 1
                 /\ SubSeq(ret, 1, Len(p)) = p]_vars

\* C8: a run of a Query object returns the graph that its run before
\* returned, whatever was called on the object in between (the networks
\* never change).
C8_RunDeterministic ==
    [][\A o \in Objects :
          (run(o) /\ ran[o].done) => ran'[o].graph = ran[o].graph]_vars

\* C9: in every stored state of every Experiment row, result is set exactly
\* when completed is true.
C9_ResultIffCompleted ==
    \A e \in 1..Len(experiments) :
        (experiments[e].result # NULL) <=> experiments[e].completed

\* C9 witness: a stored Experiment that run_cmpa completed, while the
\* other worker holds a result for it that is not committed yet
C9_Witness ==
    \E e \in 1..Len(experiments), w \in Workers :
        /\ experiments[e].completed
        /\ experiments[e].result # NULL
        /\ workers[w].pc = "scored"
        /\ workers[w].experiment_id = e

Dispatched(e) ==
    \/ broker[e] > 0
    \/ \E w \in Workers : workers[w].pc = "scored" /\ workers[w].experiment_id = e

\* C12: an Experiment whose run task was sent reaches completed = true or
\* a recorded failure: once no run task of it waits and no worker runs
\* one, so that nothing is left that could change the row, it is completed
\* (the row has no column that records a failure).
C12_RunSettles ==
    \A e \in 1..Len(experiments) : ~Dispatched(e) => experiments[e].completed

\* C13: every message handed to send_task has a task name and the two
\* positional arguments database URI and row id, in that order.
C13_TaskArgs ==
    \A m \in tasks :
        /\ m.name # ""
        /\ Len(m.args) = 2
        /\ m.args[1] = SQLALCHEMY_DATABASE_URI
        /\ m.args[2].type = "id"

\* C14: no exception leaves run_cmpa or async_parser: a worker process is
\* never where an exception has left its task.
C14_TaskReturns ==
    /\ \A w \in Workers : workers[w].pc # "raised"
    /\ \A p \in Parsers : parsers[p].pc # "raised"

\* C15: a Report on which async_parser recorded the message of a failure
\* has completed = false, and Report.failed is true of it.
C15_FailedReport ==
    \A r \in 1..Len(reports) :
        (reports[r].message # "" /\ reports[r].message # "Granted rights")
            => (reports[r].completed = Bool(FALSE) /\ failed(reports[r]))

\* C16 as stated: Report.stalled is true exactly of the reports that are
\* incomplete and were created more than three hours ago.
C16_StalledIffIncomplete ==
    \A r \in 1..Len(reports) :
        stalled(reports[r]) <=> (incomplete(reports[r]) /\ now - reports[r].created > 3)

\* C16: Report.stalled is true exactly of the reports that were created
\* more than three hours ago, whether they are incomplete, completed or
\* carry the message of a failure.
C16_StalledIffOld ==
    \A r \in 1..Len(reports) : stalled(reports[r]) <=> reports[r].created + 3 < now

\* C16 witness: a completed Report that is older than three hours and
\* stalled, and an incomplete Report of exactly three hours that is not
C16_Witness ==
    \E a, b \in 1..Len(reports) :
        /\ reports[a].completed = Bool(TRUE) /\ stalled(reports[a])
        /\ incomplete(reports[b]) /\ now - reports[b].created = 3 /\ ~stalled(reports[b])

\* C17: of two async_parser runs for graphs of one name and version, in any
\* interleaving, one Network row of that name and version is stored at
\* most; the run whose insert raises the integrity error stores no row,
\* has the integrity message on its Report, leaves the Report without
\* completed and ends without a second insert.
C17_ConcurrentUploads ==
    /\ [](\A a, b \in 1..Len(networks) :
             (networks[a].name = networks[b].name /\ networks[a].version = networks[b].version)
                 => a = b)
    /\ [][\A p \in Parsers, raised \in {"", "OperationalError", "Exception"} :
             (/\ async_parser_insert(p, raised)
              /\ Lookup(networks, parsers[p].graph) # {})
             => LET r == parsers[p].report_id
                IN  /\ networks' = networks
                    /\ reports'[r].message
                           = integrity_message(parsers[p].graph.name, parsers[p].graph.version)
                    /\ reports'[r].completed = NULL
                    /\ parsers'[p].pc = "idle"]_vars

\* C17 witness: two uploads of the same document, one Network row, one
\* Report completed and the other with the integrity message, which only
\* the insert can have recorded as no Network has a Report
C17_Witness ==
    \E a, b \in 1..Len(reports) :
        /\ reports[a].source = "A1.bel" /\ reports[b].source = "A1.bel"
        /\ reports[a].completed = Bool(TRUE)
        /\ reports[b].message = integrity_message("A", "1")
        /\ Len(networks) = 1
        /\ \A r \in 1..Len(reports) : reports[r].network = 0

\* The row whose id is the last argument of the message exists
RowCommitted(m) ==
    LET id == m.args[Len(m.args)].id
    IN  IF m.name = "run-heat-diffusion" THEN id \in 1..Len(experiments)
        ELSE id \in 1..Len(reports)

\* C18: a task is sent for the id of a Report or Experiment row only after
\* the commit of that row: the row of every message exists; a request
\* whose commit raises stores no row and sends no task, and
\* make_folder_queue has stored and sent the paths before the failing one.
C18_SentAfterCommit ==
    /\ [](\A m \in tasks : RowCommitted(m))
    /\ [][/\ \A u \in Users, source \in Sources, feedback \in BOOLEAN :
                view_parser(u, source, feedback, FALSE)
                    => (reports' = reports /\ tasks' = tasks /\ inbox' = inbox)
          /\ \A o \in Objects, data \in Files :
                view_query_uploader(o, data, FALSE)
                    => (experiments' = experiments /\ omics' = omics /\ tasks' = tasks
                           /\ broker' = broker)
          /\ \A u \in Users, folder \in {<<"A1.bel">>, <<"A1.bel", "A2.bel">>},
                failing \in 1..2 :
                make_folder_queue(u, folder, failing)
                    => /\ Len(reports') = Len(reports) + failing - 1
                       /\ Cardinality(tasks') = Cardinality(tasks) + failing - 1]_vars

\* C18 witness: an upload whose commit raised, after an upload that was
\* stored and whose task was sent
C18_Witness ==
    /\ response = Flash("view_parser", "Unable to upload BEL document", "message")
    /\ Len(reports) = 1
    /\ tasks = {Task("upload-bel", <<SQLALCHEMY_DATABASE_URI, RowId(1)>>)}

\* C19: a request of view_query_uploader whose file does not parse as a
\* table stores no Omic and no Experiment, sends no task and flashes a
\* warning.
C19_MalformedStoresNothing ==
    [][\A o \in Objects, data \in Files, commits \in BOOLEAN :
          (read_csv(data).raised = "ParserError" /\ view_query_uploader(o, data, commits))
          => /\ omics' = omics
             /\ experiments' = experiments
             /\ tasks' = tasks
             /\ broker' = broker
             /\ response'.category = "warning"]_vars

\* C19 witness: the warning of a malformed file, after an upload that was
\* stored; one Experiment, one Omic and one task are there
C19_Witness ==
    /\ response = Flash("view_query_uploader",
                        "Malformed differential gene expression file.", "warning")
    /\ Len(experiments) = 1
    /\ Len(omics) = 1
    /\ Cardinality(tasks) = 1

\* C20: the delete of an Edge removes the edge, the votes of the edge and
\* the comments of the edge; the votes and the comments of the other
\* edges, the other edges and the users stay.
C20_DeleteEdgeCascades ==
    [][\A e \in 1..MaxEdges :
          delete_edge(e)
          => /\ edges' = edges \ {e}
             /\ votes' = {v \in votes : v.edge_id # e}
             /\ comments' = {c \in comments : c.edge_id # e}
             /\ users' = users]_vars

\* C20 witness: an edge was deleted and votes and comments with it; the
\* other edge, a vote and a comment of it and both users are there
C20_Witness ==
    /\ Cardinality(edges) = 1
    /\ nextEdge > 2
    /\ votes # {} /\ Cardinality(votes) < nextVote - 1
    /\ comments # {} /\ Cardinality(comments) < nextComment - 1
    /\ \A v \in votes : v.edge_id \in edges
    /\ \A c \in comments : c.edge_id \in edges
    /\ users = Users

\* C21: after a get_or_create_vote call for an (edge, user) pair there is
\* exactly one EdgeVote row for the pair and its agreed flag is the value of
\* the call; after the first call for the pair the changed timestamp of the
\* row is null, after a later call it is not null.
C21_VoteGetOrCreate ==
    [][\A u \in Users, e \in 1..MaxEdges, agreed \in BOOLEAN :
          get_or_create_vote(u, e, agreed)
          => LET rows == {v \in votes' : v.edge_id = e /\ v.user_id = u}
             IN  /\ Cardinality(rows) = 1
                 /\ \A v \in rows :
                        /\ v.agreed = Bool(agreed)
                        /\ get_vote(u, e) = {} => v.changed = NULL
                        /\ get_vote(u, e) # {} => v.changed # NULL]_vars

\* C22: a delete of a Query leaves its sibling forks, the other stored
\* children of its parent, stored and as they were, and leaves every
\* Assembly, the one it shares with other Queries included, stored with its
\* network set.
C22_DeleteLeavesSiblings ==
    [][\A o \in Objects :
          Delete(o)
          => /\ assemblies' = assemblies
             /\ \A p \in Objects \ {o} :
                    (/\ Stored(p)
                     /\ queries[o].parent_id # 0
                     /\ queries[p].parent_id = queries[o].parent_id)
                    => queries'[p] = queries[p]]_vars

\* C22 witness: a fork was deleted and a sibling of it, a fork of the same
\* parent on the same Assembly, is stored, with the network set of the
\* Assembly
C22_Witness ==
    \E o, p \in Objects :
        /\ o # p
        /\ queries[o].state = "deleted" /\ queries[o].id \in dropped
        /\ queries[o].parent_id # 0
        /\ Stored(p)
        /\ queries[p].parent_id = queries[o].parent_id
        /\ queries[p].assembly = queries[o].assembly
        /\ assemblies[queries[p].assembly] = NetworkIds

\* C23: the table that get_dataframe_from_experiments builds, without
\* clusters, has exactly one row per distinct (type, namespace, name) triple
\* that the data lists of the experiments hold, and the cell of a row in the
\* column of experiment e is e's value at position 3 for the triple rounded
\* to 4 decimals, or 0.0 when e has no entry for the triple.
C23_ComparisonTable ==
    (returned.call = "get_dataframe_from_experiments" /\ returned.done
        /\ returned.clusters = NULL)
    => LET compared == SelectSeq(returned.experiments, LAMBDA e : e.result # NULL)
           seen     == UNION {DOMAIN get_data_list(compared[j]) : j \in DOMAIN compared}
           df       == returned.df
       IN  /\ df.raised = ""
           /\ {df.rows[i].entry : i \in DOMAIN df.rows} = seen
           /\ Len(df.rows) = Cardinality(seen)
           /\ Len(df.columns) = Len(compared)
           /\ \A i \in DOMAIN df.rows, j \in DOMAIN compared :
                  df.rows[i].cells[j]
                      = IF df.rows[i].entry \in DOMAIN get_data_list(compared[j])
                        THEN round4(get_data_list(compared[j])[df.rows[i].entry][4])
                        ELSE 0

\* C24: with clusters = k and a seed, every table that
\* get_dataframe_from_experiments returns has a Group label in 1..k in every
\* row and its rows are in the order of their Group, and a further call
\* with the same seed and the same experiments returns the same table, so
\* the same Group labels.
C24_Groups ==
    /\ [](\A k \in {1, 2} :
             (/\ returned.call = "get_dataframe_from_experiments" /\ returned.done
              /\ returned.clusters = <<k>> /\ returned.seed # NULL
              /\ returned.df.raised = "")
             => LET rows == returned.df.rows
                IN  /\ \A i \in DOMAIN rows : rows[i].Group \in 1..k
                    /\ \A i, j \in DOMAIN rows : i < j => rows[i].Group <= rows[j].Group)
    /\ [][(/\ returned.call = "get_dataframe_from_experiments" /\ returned.done
           /\ returned.clusters # NULL /\ returned.seed # NULL
           /\ returned'.call = returned.call /\ returned'.done
           /\ returned'.experiments = returned.experiments
           /\ returned'.clusters = returned.clusters /\ returned'.seed = returned.seed)
          => returned'.df = returned.df]_vars

\* C24 witness: a table of two experiments and two rows, clustered into two
\* groups with a seed, whose rows are in both groups
C24_Witness ==
    /\ returned.call = "get_dataframe_from_experiments" /\ returned.done
    /\ returned.clusters = <<2>> /\ returned.seed # NULL
    /\ returned.df.raised = ""
    /\ Len(returned.df.columns) = 2
    /\ {returned.df.rows[i].Group : i \in DOMAIN returned.df.rows} = {1, 2}

C27_SourceDict ==
    returned.call = "get_source_dict"
    => LET rows == returned.omic.source.rows
           dict == returned.result
       IN  /\ \A i \in DOMAIN rows : rows[i][1] = "" => rows[i][1] \notin DOMAIN dict
           /\ \A i \in DOMAIN rows : rows[i][1] # "" => rows[i][1] \in DOMAIN dict
           /\ \A gene \in DOMAIN dict :
                  \E i \in DOMAIN rows : rows[i][1] = gene /\ rows[i][3] = dict[gene]

\* C27 witness: the dictionary of a table with a row without a gene and two
\* rows of one gene with different values
C27_Witness ==
    /\ returned.call = "get_source_dict"
    /\ \E i, j, k \in DOMAIN returned.omic.source.rows :
           /\ returned.omic.source.rows[i][1] = ""
           /\ returned.omic.source.rows[j][1] = "A" /\ returned.omic.source.rows[k][1] = "A"
           /\ returned.omic.source.rows[j][3] # returned.omic.source.rows[k][3]
    /\ DOMAIN returned.result = {"A"}

\* C28: every run of async_parser that ends leaves its Report in exactly one
\* outcome: completed is true and there is no message, or there is a
\* message and completed is not true.
C28_ReportOutcome ==
    [][LET outcome(report) ==
               \/ report.completed = Bool(TRUE) /\ report.message = ""
               \/ report.message # "" /\ report.completed # Bool(TRUE)
       IN  \A p \in Parsers :
               /\ \A m \in inbox, tampered \in BOOLEAN :
                      (async_parser_parse(p, m, tampered) /\ parsers'[p].pc # "enriched")
                      => outcome(reports'[m.args[2].id])
               /\ \A raised \in {"", "OperationalError", "Exception"} :
                      async_parser_insert(p, raised)
                      => outcome(reports'[parsers[p].report_id])]_vars

\* C29: has_experiment_rights is false for a user who is not an admin and
\* is not the owner of an Experiment that is not public, also when the user
\* rows have no email.
C29_ExperimentRights ==
    (/\ returned.call = "has_experiment_rights"
     /\ ~returned.experiment.public
     /\ ~returned.self.is_admin
     /\ returned.self.id # returned.experiment.user.id)
    => ~returned.result

\* C30: NetworkOverlap.build gives the same left and right networks
\* whatever the order of its two arguments, and the id of the left one is
\* not smaller than the id of the right one.
C30_CanonicalOrder ==
    returned.call = "build"
    => /\ returned.result = build(returned.right, returned.left, returned.overlap)
       /\ returned.result.left.id >= returned.result.right.id
       /\ {returned.result.left, returned.result.right} = {returned.left, returned.right}

\* C30 witness: build was given the network with the smaller id first and
\* has swapped the two
C30_Witness ==
    /\ returned.call = "build"
    /\ returned.left.id < returned.right.id
    /\ returned.result.left = returned.right
    /\ returned.result.right = returned.left

====
